---- MODULE Spec2Model ----
(***************************************************************************)
(* Model of the multi-account core of mcp-outlook-server:                  *)
(*   - OutlookMCPServer.executeForAccounts and formatMultiAccountResponse  *)
(*     (src/src/index.ts), the fan-out executor and response aggregator;   *)
(*   - AuthManager.getAccessToken with the token cache file                *)
(*     (src/src/auth.ts), the session manager and token store;             *)
(*   - OutlookMCPServer.handleAuthLogin, authenticateSingleAccount and     *)
(*     authenticateMultipleAccounts (src/src/index.ts), the interactive    *)
(*     login; AuthManager.handleAuthCallback and clearTokenCache;          *)
(*   - loadConfig and the validation of src/src/config.ts;                 *)
(*   - the CallTool request handler with handleMailMessageGet and          *)
(*     handleMailSend (src/src/index.ts), the tool dispatcher.             *)
(* JavaScript strings are sequences of string tokens (the empty string is  *)
(* <<>>); JavaScript values are records with a kind field k.               *)
(***************************************************************************)
EXTENDS Integers, Sequences, FiniteSets, TLC

\* ---------------------------------------------------------------- bounds
MaxAccounts == 3
\* accounts configured in the runs of the session manager
MaxTokenAccounts == 2
\* getAccessToken calls that may be in flight or finished
MaxCalls == 2
\* the clock runs from 0 to MaxTime
MaxTime == 2
\* tokens the identity provider issues in one run
MaxIssued == 2
\* instants for which a token issued by the provider is valid
TokenLifetime == 2
\* authenticateSingleAccount invocations in one run
MaxFlows == 2
\* getAccessToken calls in a run of logouts and code exchanges
MaxStoreCalls == 1
\* handleAuthCallback calls in one run
MaxHandlers == 2
\* invocations of one registered continuation that are counted
MaxInvoked == 2
\* entries of the accounts array of config.json
MaxCfgAccounts == 2

\* Names an account of config.accounts may carry; the registry is a prefix.
AllNames == <<"A", "B", "C", "D", "E">>

\* A name that is in no registry.
Ghost == "ghost"

VARIABLES
  registry,     \* config.accounts.map(acc => acc.name), fixed at start-up
  target,       \* args.account of the tool call being served
  accounts,     \* executeForAccounts: const accounts
  epc,          \* position of the tool handler: idle, awaiting, returned, formatted
  opCalls,      \* number of invocations of operation(account), per account name
  inner,        \* the promises of accounts.map(async ...) given to Promise.allSettled
  opResult,     \* what operation(accounts[i]) settled with, per index
  settleOrder,  \* indices of inner in the order in which they settled
  results,      \* the value executeForAccounts resolved with
  escaped,      \* TRUE when executeForAccounts rejected
  reply,        \* outcome of formatMultiAccountResponse(results)
  tokenFile,    \* the file at AuthManager.tokenCachePath (.tokens.json)
  now,          \* the clock read by new Date()
  issued,       \* number of tokens the identity provider has issued
  gpc,          \* per getAccessToken call: idle, silent (awaiting acquireTokenSilent), done
  gacct,        \* per call: its accountName argument
  gcached,      \* per call: its local cachedToken
  gres,         \* per call: what it returned or threw
  gnet,         \* per call: the calls it made to the identity provider
  gwrites,      \* per call: the writes it made to the token file
  authServer,   \* this.authServer: 0 for null, else the flow whose server it references
  lpc,          \* per login flow: idle, bound, opening, opened, startFailed
  lacct,        \* per flow: the accountName of authenticateSingleAccount
  lres,         \* per flow: how the promise of authenticateSingleAccount settled
  srv,          \* per flow: its http server: none, listening, failed (EADDRINUSE), closed
  authCodeReceived, \* per flow: the local flag of that name
  timer,        \* per flow: the setTimeout of 300000 ms: none, armed, fired
  cbx,          \* per flow: the /auth/callback request awaiting acquireTokenByCode
  lastCb,       \* per flow: the last request that reached /auth/callback: none, noCode, withCode
  multi,        \* the loop of authenticateMultipleAccounts
  crashed,      \* the process died of an unhandled 'error' event
  sop,          \* the last direct call of clearTokenCache or acquireTokenByCode
  pendingAuth,  \* this.pendingAuth: per state, whether a continuation is registered
  hpc,          \* per handleAuthCallback call: idle, awaiting, done
  hstate,       \* per handleAuthCallback call: its state argument
  hres,         \* per handleAuthCallback call: none, returned, threw
  invoked,      \* per state: invocations of the continuation registered last
  cfgFile,      \* config.json: absent, corrupt, or its parsed content
  env,          \* process.env.CLIENT_ID and CLIENT_SECRET
  cpc,          \* the module body of config.ts: start, loaded, failed, ready
  config,       \* the exported config
  tpc,          \* the tools/call request: idle, called, awaiting, done
  tname,        \* request.params.name
  targs,        \* args.account of the request
  sent,         \* the accounts on whose GraphClient sendMail was invoked, in order
  tdown,        \* what the GraphClient call of a direct handler settled with
  tres          \* what the request handler settled with

fanVars == <<target, accounts, epc, opCalls, inner, opResult, settleOrder, results,
             escaped, reply>>

tokVars == <<tokenFile, now, issued, gpc, gacct, gcached, gres, gnet, gwrites>>

loginVars == <<authServer, lpc, lacct, lres, srv, authCodeReceived, timer, cbx, lastCb,
               multi, crashed>>

storeVars == <<sop>>

pendVars == <<pendingAuth, hpc, hstate, hres, invoked>>

cfgVars == <<cfgFile, env, cpc, config>>

toolVars == <<tpc, tname, targs, sent, tdown, tres>>

auxVars == <<storeVars, pendVars, cfgVars, toolVars>>

vars == <<registry, fanVars, tokVars, loginVars, auxVars>>

\* ------------------------------------------------------- JavaScript values
Undefined == [k |-> "undefined", v |-> <<>>]
Null == [k |-> "null", v |-> <<>>]
Str(toks) == [k |-> "string", v |-> toks]
\* { content: [{ type: 'text', text }] }, what the tool operations resolve with
Content(toks) == [k |-> "content", v |-> toks]
\* an Error object whose message is toks
ErrorObj(toks) == [k |-> "Error", v |-> toks]
\* a thrown value that is an object or string without a message property
Plain(toks) == [k |-> "plain", v |-> toks]
\* the error the Graph client throws for a 401 answer: message toks, statusCode 401
GraphError401(toks) == [k |-> "GraphError", v |-> toks]

\* error.statusCode === 401
StatusCode401(x) == x.k = "GraphError"

\* JavaScript truthiness of a value
Truthy(x) ==
  CASE x.k = "undefined" -> FALSE
    [] x.k = "null" -> FALSE
    [] x.k = "string" -> x.v # <<>>
    [] OTHER -> TRUE

\* x.message; reading a property of null or undefined throws a TypeError
MessageThrows(x) == x.k \in {"null", "undefined"}

TypeErrorMessage == <<"Cannot read properties of null (reading 'message')">>

Message(x) == IF x.k \in {"Error", "GraphError"} THEN Str(x.v) ELSE Undefined

\* `${x}` : template-literal conversion to string
ToStr(x) ==
  CASE x.k = "string" -> x.v
    [] x.k = "undefined" -> <<"undefined">>
    [] x.k = "null" -> <<"null">>
    [] x.k = "Error" -> <<"Error: ">> \o x.v
    [] x.k = "GraphError" -> <<"GraphError: ">> \o x.v
    [] x.k = "TypeError" -> <<"TypeError: ">> \o x.v
    [] OTHER -> <<"[object Object]">>

\* ------------------------------------------------------------- registry
Falsy(arg) == ~Truthy(arg)

getAllAccountNames == registry

Configured(name) == \E i \in 1..Len(registry) : registry[i] = name

\* ------------------------------------------------------- the operation
\* What operation(account) may settle with.  The tool operations resolve with a
\* content object or a string; they reject with whatever the Graph client or
\* AuthManager.getAccessToken throws.  For a name that is not configured,
\* getAccessToken throws before anything else happens.
AccountNotFound(name) == ErrorObj(<<"Account ", name, " not found">>)

Resolved(d) == [ok |-> TRUE, val |-> d]
Rejected(e) == [ok |-> FALSE, val |-> e]

OpSettlements(name) ==
  IF ~Configured(name)
  THEN {Rejected(AccountNotFound(name))}
  ELSE { Resolved(Content(<<"data of ", name>>)),
         Resolved(Str(<<"status of ", name>>)),
         Rejected(ErrorObj(<<"failure of ", name>>)),
         Rejected(ErrorObj(<<>>)),
         Rejected(GraphError401(<<"401 of ", name>>)),
         Rejected(Plain(<<"code 401 of ", name>>)),
         Rejected(Null) }

\* ---------------------------------------------------- executeForAccounts
NotSettled == [done |-> FALSE, ok |-> FALSE, val |-> Undefined]

Pending == [st |-> "pending", account |-> "", data |-> Undefined, error |-> Undefined]

Fulfilled(account, data, error) ==
  [st |-> "fulfilled", account |-> account, data |-> data, error |-> error]

\* a rejected inner promise: error holds the rejection reason
RejectedWith(reason) ==
  [st |-> "rejected", account |-> "", data |-> Undefined, error |-> reason]

\* index.ts 341-343: catch (error) { return { account, data: null, error: error.message } }
InnerCatch(account, thrown) ==
  IF MessageThrows(thrown)
  THEN RejectedWith([k |-> "TypeError", v |-> TypeErrorMessage])
  ELSE Fulfilled(account, Null, Message(thrown))

\* index.ts 337-344: the async function mapped over accounts, once operation
\* has settled with r
InnerSettle(account, r) ==
  IF r.ok THEN Fulfilled(account, r.val, Undefined)
  ELSE InnerCatch(account, r.val)

Outcome(account, data, error) == [account |-> account, data |-> data, error |-> error]

\* index.ts 347-353: results.map over the settled promises
MapSettled(p) ==
  IF p.st = "fulfilled"
  THEN Outcome(p.account, p.data, p.error)
  ELSE Outcome("unknown", Null, p.error)

AllSettled == \A i \in 1..Len(inner) : inner[i].st # "pending"

\* index.ts 332-334
ResolveAccounts(arg) == IF Truthy(arg) THEN <<arg.v[1]>> ELSE getAllAccountNames

\* index.ts 328-345, up to the await: the accounts are resolved and
\* operation(account) is invoked for each of them, in order, before any settles.
ExecStart(arg) ==
  /\ epc = "idle"
  /\ target' = arg
  /\ accounts' = ResolveAccounts(arg)
  /\ opCalls' = [n \in DOMAIN opCalls |->
                   opCalls[n] + Cardinality({i \in 1..Len(accounts') : accounts'[i] = n})]
  /\ inner' = [i \in 1..Len(accounts') |-> Pending]
  /\ opResult' = [i \in 1..Len(accounts') |-> NotSettled]
  /\ epc' = "awaiting"
  /\ UNCHANGED <<registry, settleOrder, results, escaped, reply>>
  /\ UNCHANGED tokVars
  /\ UNCHANGED loginVars
  /\ UNCHANGED auxVars

\* operation(accounts[i]) settles with r; the inner async function settles
OpSettle(i, r) ==
  /\ epc = "awaiting"
  /\ i \in 1..Len(inner)
  /\ inner[i].st = "pending"
  /\ r \in OpSettlements(accounts[i])
  /\ opResult' = [opResult EXCEPT ![i] = [done |-> TRUE, ok |-> r.ok, val |-> r.val]]
  /\ inner' = [inner EXCEPT ![i] = InnerSettle(accounts[i], r)]
  /\ settleOrder' = Append(settleOrder, i)
  /\ UNCHANGED <<registry, target, accounts, epc, opCalls, results, escaped, reply>>
  /\ UNCHANGED tokVars
  /\ UNCHANGED loginVars
  /\ UNCHANGED auxVars

\* the results in the order in which the operations completed (a streamed join)
JoinedStreamed == [j \in 1..Len(settleOrder) |-> MapSettled(inner[settleOrder[j]])]

\* index.ts 347-353: results.map keeps the order of the array given to allSettled
Joined == [i \in 1..Len(inner) |-> MapSettled(inner[i])]

\* a fail-fast join: resumes as soon as one inner promise is no longer pending
ReadyToReturnAny == \E i \in 1..Len(inner) : inner[i].st # "pending"

\* index.ts 336: await Promise.allSettled(...) resumes once every promise settled
ReadyToReturn == AllSettled

\* index.ts 336: Promise.allSettled never rejects
AwaitThrows == FALSE

ExecReturn ==
  /\ epc = "awaiting"
  /\ ReadyToReturn
  /\ escaped' = AwaitThrows
  /\ results' = IF escaped' THEN <<>> ELSE Joined
  /\ epc' = "returned"
  /\ UNCHANGED <<registry, target, accounts, opCalls, inner, opResult, settleOrder, reply>>
  /\ UNCHANGED tokVars
  /\ UNCHANGED loginVars
  /\ UNCHANGED auxVars

\* ------------------------------------------- formatMultiAccountResponse
RECURSIVE JoinToks(_, _)
\* parts.join(sep) for a sequence of token strings
JoinToks(parts, sep) ==
  IF parts = <<>> THEN <<>>
  ELSE IF Len(parts) = 1 THEN parts[1]
  ELSE parts[1] \o sep \o JoinToks(Tail(parts), sep)

\* index.ts 391-399
formatSingleResponse(data) ==
  CASE data.k = "string" -> data.v
    [] data.k = "content" /\ data.v # <<>> -> data.v
    [] data.k = "null" -> <<"null">>
    [] OTHER -> <<"{...}">>

SelectErrors(rs) == SelectSeq(rs, LAMBDA r : Truthy(r.error))

\* the filter of the success list written with a presence test on data
SelectSuccessesByData(rs) == SelectSeq(rs, LAMBDA r : r.data.k # "null")

\* index.ts 366: results.filter(r => !r.error)
SelectSuccesses(rs) == SelectSeq(rs, LAMBDA r : ~Truthy(r.error))

SuccessBlock(r) == <<"[", r.account, "]", "\n">> \o formatSingleResponse(r.data)

ErrorBlock(r) == <<"[", r.account, "]", " Error: ">> \o ToStr(r.error)

NoReply == [kind |-> "none", value |-> Undefined, text |-> <<>>]
Returned(value) == [kind |-> "return", value |-> value, text |-> <<>>]
ReturnedText(text) == [kind |-> "return", value |-> Content(text), text |-> text]
Thrown(message) == [kind |-> "throw", value |-> Undefined, text |-> message]

\* the message of the single-account failure without the account name
SingleErrorMessageBare(result) == ToStr(result.error)

\* index.ts 361: new Error(`${result.account}: ${result.error}`)
SingleErrorMessage(result) == <<result.account, ": ">> \o ToStr(result.error)

\* index.ts 357: the multi-account branch is the else of results.length === 1
MultiBranchTaken(rs) == Len(rs) # 1

\* index.ts 356-389
formatMultiAccountResponse(rs) ==
  IF ~MultiBranchTaken(rs)
  THEN LET result == rs[1] IN
       IF Truthy(result.error)
       THEN Thrown(SingleErrorMessage(result))
       ELSE Returned(result.data)
  ELSE LET successResults == SelectSuccesses(rs)
           errorResults == SelectErrors(rs)
           response1 == JoinToks([i \in 1..Len(successResults) |-> SuccessBlock(successResults[i])], <<"\n\n">>)
           errors == JoinToks([i \in 1..Len(errorResults) |-> ErrorBlock(errorResults[i])], <<"\n">>)
           response == IF errorResults # <<>>
                       THEN response1 \o (IF response1 # <<>> THEN <<"\n\n">> ELSE <<>>) \o errors
                       ELSE response1
       IN ReturnedText(response)

\* index.ts 550 (and 529, 591, 648, 669, 707): return this.formatMultiAccountResponse(results)
Format ==
  /\ epc = "returned"
  /\ ~escaped
  /\ reply' = formatMultiAccountResponse(results)
  /\ epc' = "formatted"
  /\ UNCHANGED <<registry, target, accounts, opCalls, inner, opResult, settleOrder, results,
                 escaped>>
  /\ UNCHANGED tokVars
  /\ UNCHANGED loginVars
  /\ UNCHANGED auxVars

\* ------------------------------------------------------------ token store
CallIds == 1..MaxCalls

\* an access token: one found in the file at start-up, or the n-th the provider issued
NoToken == [src |-> "none", n |-> 0]
CachedTokenOf(i) == [src |-> "cached", n |-> i]
IssuedToken(n) == [src |-> "issued", n |-> n]

\* expiresOn as a Date (in memory) and as the ISO string JSON.stringify writes
DateAt(t) == [k |-> "Date", t |-> t]
IsoAt(t) == [k |-> "string", t |-> t]

\* JSON.stringify then JSON.parse of a Date: the ISO string of the same instant
JsonOfDate(d) == IF d.k = "Date" THEN IsoAt(d.t) ELSE d

\* new Date(x).getTime() for a Date or an ISO string
NewDate(x) == x.t

\* cache[accountName] === undefined
NoRecord == [present |-> FALSE, accessToken |-> NoToken, expiresOn |-> IsoAt(0), account |-> FALSE]

\* a token response as JSON.parse returns it from the file; account is the
\* refresh handle (the MSAL account object), TRUE when it is present
Record(tok, exp, account) ==
  [present |-> TRUE, accessToken |-> tok, expiresOn |-> exp, account |-> account]

\* JSON.parse(JSON.stringify(tokenResponse))
JsonOf(resp) == [resp EXCEPT !.expiresOn = JsonOfDate(resp.expiresOn)]

AllKeys == {AllNames[i] : i \in 1..Len(AllNames)} \cup {Ghost, ""}

EmptyCache == [n \in AllKeys |-> NoRecord]

MissingFile == [st |-> "missing", cache |-> EmptyCache]
CorruptFile == [st |-> "corrupt", cache |-> EmptyCache]
FileWith(cache) == [st |-> "ok", cache |-> cache]

\* auth.ts 16-31: this.msalClients has one client per configured account
HasClient(name) == Configured(name)

\* auth.ts 160-171: cache[accountName], undefined or null when there is none
loadTokenFromCache(file, accountName) ==
  IF file.st = "ok" THEN file.cache[accountName] ELSE NoRecord

\* a save that forgets to write the file
saveTokenToCacheNoWrite(file, accountName, tokenResponse) == file

\* a save that writes a file holding the new record alone
saveTokenToCacheAlone(file, accountName, tokenResponse) ==
  CASE file.st = "corrupt" -> file
    [] OTHER -> FileWith([EmptyCache EXCEPT ![accountName] = JsonOf(tokenResponse)])

\* auth.ts 143-158: read-modify-write of the whole file; a parse error of the
\* existing file is caught and nothing is written
saveTokenToCache(file, accountName, tokenResponse) ==
  CASE file.st = "missing" -> FileWith([EmptyCache EXCEPT ![accountName] = JsonOf(tokenResponse)])
    [] file.st = "corrupt" -> file
    [] OTHER -> FileWith([file.cache EXCEPT ![accountName] = JsonOf(tokenResponse)])

NoResult == [kind |-> "none", token |-> NoToken]
ReturnToken(tok) == [kind |-> "token", token |-> tok]
ReturnNull == [kind |-> "null", token |-> NoToken]
ThrowNotFound == [kind |-> "throw", token |-> NoToken]

\* an expiry test with the comparison reversed
UnexpiredReversed(cachedToken, t) ==
  cachedToken.present /\ NewDate(cachedToken.expiresOn) < t

\* auth.ts 92: cachedToken && new Date(cachedToken.expiresOn) > new Date()
Unexpired(cachedToken, t) ==
  cachedToken.present /\ NewDate(cachedToken.expiresOn) > t

\* auth.ts 97: cachedToken?.account
CanRefresh(cachedToken) == cachedToken.present /\ cachedToken.account

\* auth.ts 83-111: getAccessToken up to its first await, or to its return
GetAccessTokenStart(c, accountName) ==
  /\ gpc[c] = "idle"
  /\ gacct' = [gacct EXCEPT ![c] = accountName]
  /\ IF ~HasClient(accountName)
     THEN /\ gres' = [gres EXCEPT ![c] = ThrowNotFound]
          /\ gpc' = [gpc EXCEPT ![c] = "done"]
          /\ UNCHANGED <<gcached, gnet>>
     ELSE LET cachedToken == loadTokenFromCache(tokenFile, accountName) IN
          /\ gcached' = [gcached EXCEPT ![c] = cachedToken]
          /\ IF Unexpired(cachedToken, now)
             THEN /\ gres' = [gres EXCEPT ![c] = ReturnToken(cachedToken.accessToken)]
                  /\ gpc' = [gpc EXCEPT ![c] = "done"]
                  /\ UNCHANGED gnet
             ELSE IF CanRefresh(cachedToken)
             THEN /\ gnet' = [gnet EXCEPT ![c] = @ + 1]
                  /\ gpc' = [gpc EXCEPT ![c] = "silent"]
                  /\ UNCHANGED gres
             ELSE /\ gres' = [gres EXCEPT ![c] = ReturnNull]
                  /\ gpc' = [gpc EXCEPT ![c] = "done"]
                  /\ UNCHANGED gnet
  /\ UNCHANGED <<registry, tokenFile, now, issued, gwrites>>
  /\ UNCHANGED fanVars
  /\ UNCHANGED loginVars
  /\ UNCHANGED auxVars

\* what acquireTokenSilent resolves with: a new token, valid for TokenLifetime
SilentResponse == Record(IssuedToken(issued + 1), DateAt(now + TokenLifetime), TRUE)

\* auth.ts 111-113: acquireTokenSilent resolved; the response is saved and its
\* access token returned
SilentResolve(c) ==
  /\ gpc[c] = "silent"
  /\ issued < MaxIssued
  /\ issued' = issued + 1
  /\ tokenFile' = saveTokenToCache(tokenFile, gacct[c], SilentResponse)
  /\ gwrites' = [gwrites EXCEPT ![c] = IF tokenFile' # tokenFile THEN @ + 1 ELSE @]
  /\ gres' = [gres EXCEPT ![c] = ReturnToken(SilentResponse.accessToken)]
  /\ gpc' = [gpc EXCEPT ![c] = "done"]
  /\ UNCHANGED <<registry, now, gacct, gcached, gnet>>
  /\ UNCHANGED fanVars
  /\ UNCHANGED loginVars
  /\ UNCHANGED auxVars

\* a rejected refresh that is rethrown to the caller
SilentRejectResultThrows == [kind |-> "throw", token |-> NoToken]

\* auth.ts 114-117: catch (error) { console.error(...); return null; }
SilentRejectResult == ReturnNull

\* acquireTokenSilent rejected
SilentReject(c) ==
  /\ gpc[c] = "silent"
  /\ gres' = [gres EXCEPT ![c] = SilentRejectResult]
  /\ gpc' = [gpc EXCEPT ![c] = "done"]
  /\ UNCHANGED <<registry, tokenFile, now, issued, gacct, gcached, gnet, gwrites>>
  /\ UNCHANGED fanVars
  /\ UNCHANGED loginVars
  /\ UNCHANGED auxVars

\* time passes
Tick ==
  /\ now < MaxTime
  /\ now' = now + 1
  /\ UNCHANGED <<registry, tokenFile, issued, gpc, gacct, gcached, gres, gnet, gwrites>>
  /\ UNCHANGED fanVars
  /\ UNCHANGED loginVars
  /\ UNCHANGED auxVars

\* ------------------------------------------------------ interactive login
FlowIds == 1..MaxFlows

NoExchange == [st |-> "none", name |-> ""]

NoMulti == [active |-> FALSE, idx |-> 0, flow |-> 0, finished |-> FALSE, lines |-> <<>>]

\* index.ts 499-506: the line appended for account once its login settled with
\* res: marked as success when the promise resolved, as failure when it rejected
Line(account, res) == [account |-> account, ok |-> res \in {"opened", "success"}]

LoginIdle ==
  /\ authServer = 0
  /\ lpc = [f \in FlowIds |-> "idle"]
  /\ lacct = [f \in FlowIds |-> ""]
  /\ lres = [f \in FlowIds |-> "pending"]
  /\ srv = [f \in FlowIds |-> "none"]
  /\ authCodeReceived = [f \in FlowIds |-> FALSE]
  /\ timer = [f \in FlowIds |-> "none"]
  /\ cbx = [f \in FlowIds |-> NoExchange]
  /\ lastCb = [f \in FlowIds |-> "none"]
  /\ multi = NoMulti
  /\ crashed = FALSE

\* config.server.port is held by a listening server
PortHeld == \E g \in FlowIds : srv[g] = "listening"

\* resolve(v) or reject(v) of the promise of flow f: only the first one counts
Settle(f, v) == IF lres[f] = "pending" THEN [lres EXCEPT ![f] = v] ELSE lres

\* index.ts 445-448, 478-481, 487-489: this.authServer.close() on whatever
\* server the field references; closing a server that never listened frees nothing
CloseAuthServer ==
  IF authServer = 0 THEN srv
  ELSE [srv EXCEPT ![authServer] = IF @ = "listening" THEN "closed" ELSE @]

\* 'listening' and 'error' of a server are emitted on the next tick after
\* listen, before any request, timer or further tool call is handled
NoneBound == \A g \in FlowIds : lpc[g] # "bound"

\* the flows are taken in order
FreeFlow(f) == lpc[f] = "idle" /\ \A g \in FlowIds : g < f => lpc[g] # "idle"

\* index.ts 415-419, 464, 486-492: the synchronous part of
\* authenticateSingleAccount: app.listen binds the port or fails with
\* EADDRINUSE, this.authServer is overwritten, the timer is armed
AuthenticateSingleAccount(f, accountName) ==
  /\ FreeFlow(f)
  /\ lacct' = [lacct EXCEPT ![f] = accountName]
  /\ srv' = [srv EXCEPT ![f] = IF PortHeld THEN "failed" ELSE "listening"]
  /\ authServer' = f
  /\ timer' = [timer EXCEPT ![f] = "armed"]
  /\ lpc' = [lpc EXCEPT ![f] = "bound"]
  /\ UNCHANGED <<lres, authCodeReceived, cbx, lastCb, crashed>>

\* index.ts 402-404
LoginAccounts(arg) == IF Truthy(arg) THEN <<arg.v[1]>> ELSE getAllAccountNames

\* index.ts 401-408: handleAuthLogin for exactly one account
HandleAuthLoginSingle(f, arg) ==
  /\ ~crashed
  /\ NoneBound
  /\ Len(LoginAccounts(arg)) = 1
  /\ AuthenticateSingleAccount(f, LoginAccounts(arg)[1])
  /\ UNCHANGED multi
  /\ UNCHANGED <<registry, fanVars, tokVars>>
  /\ UNCHANGED auxVars

\* index.ts 409-411, 496-501: handleAuthLogin for several accounts enters the
\* loop of authenticateMultipleAccounts with the first account
HandleAuthLoginMulti(f, arg) ==
  /\ ~crashed
  /\ NoneBound
  /\ ~multi.active /\ ~multi.finished
  /\ Len(LoginAccounts(arg)) # 1
  /\ AuthenticateSingleAccount(f, LoginAccounts(arg)[1])
  /\ multi' = [active |-> TRUE, idx |-> 1, flow |-> f, finished |-> FALSE, lines |-> <<>>]
  /\ UNCHANGED <<registry, fanVars, tokVars>>
  /\ UNCHANGED auxVars

\* index.ts 499-506: the awaited authenticateSingleAccount has settled and the
\* loop goes on with the next account
MultiNext(f) ==
  /\ ~crashed
  /\ NoneBound
  /\ multi.active
  /\ lres[multi.flow] # "pending"
  /\ multi.idx < Len(registry)
  /\ AuthenticateSingleAccount(f, registry[multi.idx + 1])
  /\ multi' = [multi EXCEPT !.idx = @ + 1, !.flow = f,
                             !.lines = Append(@, Line(lacct[multi.flow], lres[multi.flow]))]
  /\ UNCHANGED <<registry, fanVars, tokVars>>
  /\ UNCHANGED auxVars

\* index.ts 508-515: the loop is over and the reply is returned
MultiReturn ==
  /\ ~crashed
  /\ NoneBound
  /\ multi.active
  /\ lres[multi.flow] # "pending"
  /\ multi.idx >= Len(registry)
  /\ multi' = [multi EXCEPT !.active = FALSE, !.finished = TRUE,
                             !.lines = Append(@, Line(lacct[multi.flow], lres[multi.flow]))]
  /\ UNCHANGED <<authServer, lpc, lacct, lres, srv, authCodeReceived, timer, cbx, lastCb,
                 crashed>>
  /\ UNCHANGED <<registry, fanVars, tokVars>>
  /\ UNCHANGED auxVars

\* index.ts 464: the server of flow f could not bind and emits 'error'; no
\* listener is attached, so (express 4) the process dies
BindCrash(f) ==
  /\ ~crashed
  /\ lpc[f] = "bound" /\ srv[f] = "failed"
  /\ crashed' = TRUE
  /\ UNCHANGED <<authServer, lpc, lacct, lres, srv, authCodeReceived, timer, cbx, lastCb,
                 multi>>
  /\ UNCHANGED <<registry, fanVars, tokVars>>
  /\ UNCHANGED auxVars

\* index.ts 464-466, 477-483: the callback of app.listen runs (after
\* 'listening', or, with express 5, also with the bind error, which it
\* ignores); getAuthUrl throws at once for an account without client
ListenCallback(f) ==
  /\ ~crashed
  /\ lpc[f] = "bound"
  /\ IF HasClient(lacct[f])
     THEN /\ lpc' = [lpc EXCEPT ![f] = "opening"]
          /\ UNCHANGED <<srv, authServer, lres>>
     ELSE /\ lpc' = [lpc EXCEPT ![f] = "startFailed"]
          /\ srv' = CloseAuthServer
          /\ authServer' = 0
          /\ lres' = Settle(f, "error")
  /\ UNCHANGED <<lacct, authCodeReceived, timer, cbx, lastCb, multi, crashed>>
  /\ UNCHANGED <<registry, fanVars, tokVars>>
  /\ UNCHANGED auxVars

\* index.ts 467-476: await open(authUrl) returned and the promise is resolved
\* with the text "Opening browser for ... authentication"
OpenResult == "opened"

OpenOk(f) ==
  /\ ~crashed
  /\ NoneBound
  /\ lpc[f] = "opening"
  /\ lpc' = [lpc EXCEPT ![f] = "opened"]
  /\ lres' = Settle(f, OpenResult)
  /\ UNCHANGED <<authServer, lacct, srv, authCodeReceived, timer, cbx, lastCb, multi, crashed>>
  /\ UNCHANGED <<registry, fanVars, tokVars>>
  /\ UNCHANGED auxVars

\* index.ts 477-483: getAuthCodeUrl or open rejected
OpenFail(f) ==
  /\ ~crashed
  /\ NoneBound
  /\ lpc[f] = "opening"
  /\ lpc' = [lpc EXCEPT ![f] = "startFailed"]
  /\ srv' = CloseAuthServer
  /\ authServer' = 0
  /\ lres' = Settle(f, "error")
  /\ UNCHANGED <<lacct, authCodeReceived, timer, cbx, lastCb, multi, crashed>>
  /\ UNCHANGED <<registry, fanVars, tokVars>>
  /\ UNCHANGED auxVars

\* index.ts 420-428: GET /auth/callback without code on the server of flow f
CallbackNoCode(f) ==
  /\ ~crashed
  /\ NoneBound
  /\ srv[f] = "listening"
  /\ lres' = Settle(f, "missingCode")
  /\ lastCb' = [lastCb EXCEPT ![f] = "noCode"]
  /\ UNCHANGED <<authServer, lpc, lacct, srv, authCodeReceived, timer, cbx, multi, crashed>>
  /\ UNCHANGED <<registry, fanVars, tokVars>>
  /\ UNCHANGED auxVars

\* index.ts 431: state || accountName
CallbackAccount(f, state) == IF Truthy(state) THEN state.v[1] ELSE lacct[f]

\* index.ts 420-431, auth.ts 56-75: GET /auth/callback with a code; the
\* exchange is started for the account named by state, or fails at once when
\* that account has no client
CallbackWithCode(f, state) ==
  /\ ~crashed
  /\ NoneBound
  /\ srv[f] = "listening"
  /\ cbx[f].st = "none"
  /\ lastCb' = [lastCb EXCEPT ![f] = "withCode"]
  /\ IF HasClient(CallbackAccount(f, state))
     THEN /\ cbx' = [cbx EXCEPT ![f] = [st |-> "exchanging", name |-> CallbackAccount(f, state)]]
          /\ UNCHANGED lres
     ELSE /\ lres' = Settle(f, "error")
          /\ UNCHANGED cbx
  /\ UNCHANGED <<authServer, lpc, lacct, srv, authCodeReceived, timer, multi, crashed>>
  /\ UNCHANGED <<registry, fanVars, tokVars>>
  /\ UNCHANGED auxVars

\* what client.acquireTokenByCode resolves with
CodeResponse == Record(IssuedToken(issued + 1), DateAt(now + TokenLifetime), TRUE)

\* index.ts 431-457, auth.ts 75-80: the provider accepted the code; the token
\* is saved, this.authServer is closed and the promise resolved
ExchangeOk(f) ==
  /\ ~crashed
  /\ NoneBound
  /\ cbx[f].st = "exchanging"
  /\ issued < MaxIssued
  /\ issued' = issued + 1
  /\ tokenFile' = saveTokenToCache(tokenFile, cbx[f].name, CodeResponse)
  /\ authCodeReceived' = [authCodeReceived EXCEPT ![f] = TRUE]
  /\ srv' = CloseAuthServer
  /\ authServer' = 0
  /\ lres' = Settle(f, "success")
  /\ cbx' = [cbx EXCEPT ![f] = NoExchange]
  /\ UNCHANGED <<lpc, lacct, timer, lastCb, multi, crashed>>
  /\ UNCHANGED <<registry, fanVars, now, gpc, gacct, gcached, gres, gnet, gwrites>>
  /\ UNCHANGED auxVars

\* index.ts 458-461: the provider rejected the code
ExchangeFail(f) ==
  /\ ~crashed
  /\ NoneBound
  /\ cbx[f].st = "exchanging"
  /\ lres' = Settle(f, "error")
  /\ cbx' = [cbx EXCEPT ![f] = NoExchange]
  /\ UNCHANGED <<authServer, lpc, lacct, srv, authCodeReceived, timer, lastCb, multi, crashed>>
  /\ UNCHANGED <<registry, fanVars, tokVars>>
  /\ UNCHANGED auxVars

\* index.ts 486-492: the timer of flow f fires after 300000 ms, by when the
\* callback of app.listen has long run to its end
TimerFire(f) ==
  /\ ~crashed
  /\ NoneBound
  /\ timer[f] = "armed"
  /\ lpc[f] \in {"opened", "startFailed"}
  /\ timer' = [timer EXCEPT ![f] = "fired"]
  /\ IF ~authCodeReceived[f] /\ authServer # 0
     THEN /\ srv' = CloseAuthServer
          /\ authServer' = 0
          /\ lres' = Settle(f, "timeout")
     ELSE UNCHANGED <<srv, authServer, lres>>
  /\ UNCHANGED <<lpc, lacct, authCodeReceived, cbx, lastCb, multi, crashed>>
  /\ UNCHANGED <<registry, fanVars, tokVars>>
  /\ UNCHANGED auxVars

\* ------------------------------------------- logout and the code exchange
NoOp == [kind |-> "none", arg |-> Undefined, threw |-> FALSE, seq |-> 0]

\* the call of kind k with argument arg; seq alternates, so that two equal
\* calls in a row are two steps
Op(k, arg, threw) == [kind |-> k, arg |-> arg, threw |-> threw, seq |-> 1 - sop.seq]

StoreIdle == sop = NoOp

\* a clear of everything that leaves the file where it is
clearTokenCacheNoUnlink(file, accountName) ==
  IF Truthy(accountName)
  THEN [file |-> IF file.st = "ok"
                 THEN FileWith([file.cache EXCEPT ![accountName.v[1]] = NoRecord])
                 ELSE file,
        threw |-> FALSE]
  ELSE [file |-> file, threw |-> FALSE]

\* auth.ts 173-192: clearTokenCache(accountName?).  With a name the file, if
\* there is one, is read, parsed, and written back without the name's entry;
\* without a name (or with '') the file is unlinked.  Every exception, the
\* parse error of a corrupt file included, is caught and logged.
clearTokenCache(file, accountName) ==
  IF Truthy(accountName)
  THEN [file |-> IF file.st = "ok"
                 THEN FileWith([file.cache EXCEPT ![accountName.v[1]] = NoRecord])
                 ELSE file,
        threw |-> FALSE]
  ELSE [file |-> IF file.st = "missing" THEN file ELSE MissingFile, threw |-> FALSE]

\* auth.ts 173-192: a call of clearTokenCache
ClearTokenCache(accountName) ==
  /\ tokenFile' = clearTokenCache(tokenFile, accountName).file
  /\ sop' = Op("clear", accountName, clearTokenCache(tokenFile, accountName).threw)
  /\ UNCHANGED <<registry, now, issued, gpc, gacct, gcached, gres, gnet, gwrites>>
  /\ UNCHANGED <<fanVars, loginVars, pendVars, cfgVars, toolVars>>

\* auth.ts 56-81: acquireTokenByCode(code, accountName) with a code the provider
\* accepts: throws for an account without client, else saves the response
AcquireTokenByCode(accountName) ==
  /\ issued < MaxIssued
  /\ IF HasClient(accountName)
     THEN /\ issued' = issued + 1
          /\ tokenFile' = saveTokenToCache(tokenFile, accountName, CodeResponse)
          /\ sop' = Op("put", Str(<<accountName>>), FALSE)
     ELSE /\ sop' = Op("put", Str(<<accountName>>), TRUE)
          /\ UNCHANGED <<issued, tokenFile>>
  /\ UNCHANGED <<registry, now, gpc, gacct, gcached, gres, gnet, gwrites>>
  /\ UNCHANGED <<fanVars, loginVars, pendVars, cfgVars, toolVars>>

\* ------------------------------------------------- the pending-auth map
HandlerIds == 1..MaxHandlers

\* the state values of callbacks and registrations
PendStates == {AllNames[i] : i \in 1..MaxTokenAccounts}

PendIdle ==
  /\ pendingAuth = [a \in PendStates |-> FALSE]
  /\ hpc = [h \in HandlerIds |-> "idle"]
  /\ hstate = [h \in HandlerIds |-> ""]
  /\ hres = [h \in HandlerIds |-> "none"]
  /\ invoked = [a \in PendStates |-> 0]

\* auth.ts 131-133: setPendingAuth(accountName, callback) registers a new
\* continuation, replacing the one there was
SetPendingAuth(accountName) ==
  /\ pendingAuth' = [pendingAuth EXCEPT ![accountName] = TRUE]
  /\ invoked' = [invoked EXCEPT ![accountName] = 0]
  /\ UNCHANGED <<hpc, hstate, hres>>
  /\ UNCHANGED <<registry, fanVars, tokVars, loginVars, storeVars, cfgVars, toolVars>>

\* auth.ts 135-138: handleAuthCallback(code, state) up to its await; without
\* entry it returns at once
HandleAuthCallbackStart(h, state) ==
  /\ hpc[h] = "idle"
  /\ hstate' = [hstate EXCEPT ![h] = state]
  /\ IF pendingAuth[state]
     THEN /\ invoked[state] < MaxInvoked
          /\ invoked' = [invoked EXCEPT ![state] = @ + 1]
          /\ hpc' = [hpc EXCEPT ![h] = "awaiting"]
          /\ UNCHANGED hres
     ELSE /\ hpc' = [hpc EXCEPT ![h] = "done"]
          /\ hres' = [hres EXCEPT ![h] = "returned"]
          /\ UNCHANGED invoked
  /\ UNCHANGED pendingAuth
  /\ UNCHANGED <<registry, fanVars, tokVars, loginVars, storeVars, cfgVars, toolVars>>

\* auth.ts 138-139: the continuation resolved and the entry is deleted
CallbackResolves(h) ==
  /\ hpc[h] = "awaiting"
  /\ pendingAuth' = [pendingAuth EXCEPT ![hstate[h]] = FALSE]
  /\ hpc' = [hpc EXCEPT ![h] = "done"]
  /\ hres' = [hres EXCEPT ![h] = "returned"]
  /\ UNCHANGED <<hstate, invoked>>
  /\ UNCHANGED <<registry, fanVars, tokVars, loginVars, storeVars, cfgVars, toolVars>>

\* auth.ts 138: the continuation rejected; the await throws and the delete of
\* line 139 is not reached
CallbackRejects(h) ==
  /\ hpc[h] = "awaiting"
  /\ hpc' = [hpc EXCEPT ![h] = "done"]
  /\ hres' = [hres EXCEPT ![h] = "threw"]
  /\ UNCHANGED <<pendingAuth, hstate, invoked>>
  /\ UNCHANGED <<registry, fanVars, tokVars, loginVars, storeVars, cfgVars, toolVars>>

\* ------------------------------------------------------- configuration
\* what a field of an account object or an environment variable may be
FieldValues == {Undefined, Str(<<>>), Str(<<"x">>)}

NameValues == {Undefined, Str(<<>>)} \cup {Str(<<AllNames[i]>>) : i \in 1..MaxTokenAccounts}

\* the entries of the accounts array; tenantId is not looked at by config.ts
AccountObjs == [name : NameValues, clientId : FieldValues, clientSecret : FieldValues]

AccountLists == UNION {[1..n -> AccountObjs] : n \in 0..MaxCfgAccounts}

AbsentCfg == [st |-> "absent", hasAccounts |-> FALSE, accounts |-> <<>>]
CorruptCfg == [st |-> "corrupt", hasAccounts |-> FALSE, accounts |-> <<>>]
\* a config.json that parses to an object with an accounts array
CfgWith(list) == [st |-> "ok", hasAccounts |-> TRUE, accounts |-> list]
\* a config.json that parses to an object without accounts
CfgWithout == [st |-> "ok", hasAccounts |-> FALSE, accounts |-> <<>>]

NoEnv == [CLIENT_ID |-> Undefined, CLIENT_SECRET |-> Undefined]

NoConfig == [hasAccounts |-> FALSE, accounts |-> <<>>]

CfgIdle ==
  /\ cfgFile = AbsentCfg
  /\ env = NoEnv
  /\ cpc = "ready"
  /\ config = NoConfig

LoadThrew == [threw |-> TRUE, hasAccounts |-> FALSE, accounts |-> <<>>]

\* config.ts 29-55: loadConfig()
loadConfig(file, e) ==
  CASE file.st = "ok" ->
         [threw |-> FALSE, hasAccounts |-> file.hasAccounts, accounts |-> file.accounts]
    [] file.st = "corrupt" -> LoadThrew
    [] OTHER ->
         IF Truthy(e.CLIENT_ID) /\ Truthy(e.CLIENT_SECRET)
         THEN [threw |-> FALSE, hasAccounts |-> TRUE,
               accounts |-> <<[name |-> Str(<<"Default">>), clientId |-> e.CLIENT_ID,
                               clientSecret |-> e.CLIENT_SECRET]>>]
         ELSE LoadThrew

\* a check of the account that forgets the secret
AccountInvalidNoSecret(account) == ~Truthy(account.name) \/ ~Truthy(account.clientId)

\* config.ts 65: !account.name || !account.clientId || !account.clientSecret
AccountInvalid(account) ==
  ~Truthy(account.name) \/ ~Truthy(account.clientId) \/ ~Truthy(account.clientSecret)

\* config.ts 59-68: the validation throws
ValidationThrows(c) ==
  \/ ~c.hasAccounts
  \/ Len(c.accounts) = 0
  \/ \E i \in 1..Len(c.accounts) : AccountInvalid(c.accounts[i])

\* auth.ts 20-30, 123-125: the account names in the order of config.accounts
NamesOf(c) == [i \in 1..Len(c.accounts) |-> c.accounts[i].name.v[1]]

\* config.ts 57: export const config = loadConfig()
LoadConfig ==
  /\ cpc = "start"
  /\ IF loadConfig(cfgFile, env).threw
     THEN /\ cpc' = "failed"
          /\ UNCHANGED config
     ELSE /\ cpc' = "loaded"
          /\ config' = [hasAccounts |-> loadConfig(cfgFile, env).hasAccounts,
                        accounts |-> loadConfig(cfgFile, env).accounts]
  /\ UNCHANGED <<cfgFile, env>>
  /\ UNCHANGED <<registry, fanVars, tokVars, loginVars, storeVars, pendVars, toolVars>>

\* config.ts 59-68, auth.ts 16-31: the validation; when it passes the module is
\* loaded and the AuthManager is built from config.accounts
ValidateConfig ==
  /\ cpc = "loaded"
  /\ IF ValidationThrows(config)
     THEN /\ cpc' = "failed"
          /\ UNCHANGED registry
     ELSE /\ cpc' = "ready"
          /\ registry' = NamesOf(config)
  /\ UNCHANGED <<cfgFile, env, config>>
  /\ UNCHANGED <<fanVars, tokVars, loginVars, storeVars, pendVars, toolVars>>

\* ------------------------------------------------------- the tool dispatcher
\* index.ts 272-304: the cases of the switch
FanTools == {"outlook_auth_status", "calendar_list", "calendar_events_list",
             "calendar_event_create", "mail_folders_list", "mail_messages_list"}

DirectTools == {"mail_message_get", "mail_send"}

Catalog == {"outlook_auth_login"} \cup FanTools \cup DirectTools

McpError(code, toks) == [k |-> code, v |-> toks]

ErrorCodes == {"MethodNotFound", "InvalidRequest", "InternalError"}

ToolIdle ==
  /\ tpc = "idle"
  /\ tname = ""
  /\ targs = Undefined
  /\ sent = <<>>
  /\ tdown = NotSettled
  /\ tres = NotSettled

Settled(r) == [done |-> TRUE, ok |-> r.ok, val |-> r.val]

\* index.ts 308-324: the catch block of the dispatcher.  Reading statusCode of
\* a thrown null or undefined throws a TypeError out of the catch block.
DispatchCatch(error) ==
  IF error.k \in ErrorCodes THEN Rejected(error)
  ELSE IF MessageThrows(error)
  THEN Rejected([k |-> "TypeError", v |-> <<"Cannot read properties of null (reading 'statusCode')">>])
  ELSE IF StatusCode401(error)
  THEN Rejected(McpError("InvalidRequest",
                         <<"Authentication required. Please use outlook_auth_login first.">>))
  ELSE Rejected(McpError("InternalError",
                         <<"Tool execution failed: ">> \o ToStr(Message(error))))

\* index.ts 270-307: what the request handler settles with when the tool
\* handler settled with h
Dispatch(h) == IF h.ok THEN Resolved(h.val) ELSE DispatchCatch(h.val)

\* the first account of the registry, whatever args.account says
AccountToUseFirst(arg) == getAllAccountNames[1]

\* index.ts 768: args.account || this.authManager.getAllAccountNames()[0]
AccountToUse(arg) == IF Truthy(arg) THEN arg.v[1] ELSE getAllAccountNames[1]

\* index.ts 270-307, 710-719, 738-770: the request handler up to the first
\* await of the tool handler.  An unknown name throws MethodNotFound;
\* mail_message_get without account throws InvalidRequest; mail_message_get
\* and mail_send build a GraphClient for one account and call it once.
CallTool(name, account) ==
  /\ tpc = "idle"
  /\ tname' = name
  /\ targs' = account
  /\ IF name \notin Catalog
     THEN /\ tres' = Settled(DispatchCatch(McpError("MethodNotFound", <<"Unknown tool: ", name>>)))
          /\ tpc' = "done"
          /\ UNCHANGED sent
     ELSE IF name = "mail_message_get" /\ Falsy(account)
     THEN /\ tres' = Settled(DispatchCatch(McpError("InvalidRequest",
                                <<"Account name is required for getting a specific message">>)))
          /\ tpc' = "done"
          /\ UNCHANGED sent
     ELSE IF name \in DirectTools
     THEN /\ tpc' = "awaiting"
          /\ sent' = IF name = "mail_send" THEN Append(sent, AccountToUse(account)) ELSE sent
          /\ UNCHANGED tres
     ELSE /\ tpc' = "called"
          /\ UNCHANGED <<sent, tres>>
  /\ UNCHANGED tdown
  /\ UNCHANGED <<registry, fanVars, tokVars, loginVars, storeVars, pendVars, cfgVars>>

\* index.ts 518-519: outlook_auth_status runs on every account; the other
\* fan-out handlers pass args.account
FanTarget(name, account) == IF name = "outlook_auth_status" THEN Undefined ELSE account

\* index.ts 518-528: the operation of outlook_auth_status catches every
\* failure and resolves with a string; index.ts 532-708: the other operations
\* resolve with a content object or reject
ToolOp(name, r) ==
  IF name = "outlook_auth_status" THEN r.ok /\ r.val.k = "string"
  ELSE r.ok => r.val.k = "content"

\* index.ts 710-780: the account of the GraphClient of a direct handler
DirectAccount == IF tname = "mail_send" THEN AccountToUse(targs) ELSE targs.v[1]

\* index.ts 721-735, 772-779: the text a direct handler replies with
DirectReply ==
  IF tname = "mail_send"
  THEN Content(<<"Successfully sent email from ", DirectAccount>>)
  ELSE Content(<<"message of ", DirectAccount>>)

\* index.ts 718-735, 769-779: the call of the GraphClient settled with r; a
\* rejection leaves the handler as it is
DirectSettle(r) ==
  /\ tpc = "awaiting"
  /\ r \in OpSettlements(DirectAccount)
  /\ r.ok => r.val.k = "content"
  /\ tdown' = Settled(r)
  /\ tres' = Settled(Dispatch(IF r.ok THEN Resolved(DirectReply) ELSE r))
  /\ tpc' = "done"
  /\ UNCHANGED <<tname, targs, sent>>
  /\ UNCHANGED <<registry, fanVars, tokVars, loginVars, storeVars, pendVars, cfgVars>>

\* index.ts 361, 529 (and 550, 591, 648, 669, 707): what a fan-out handler
\* settles with: the value formatMultiAccountResponse returned or the Error it threw
FanHandler == IF reply.kind = "return" THEN Resolved(reply.value) ELSE Rejected(ErrorObj(reply.text))

\* index.ts 270-325: the fan-out handler has settled
ToolReturnFan ==
  /\ tpc = "called"
  /\ tname \in FanTools
  /\ epc = "formatted"
  /\ tres' = Settled(Dispatch(FanHandler))
  /\ tpc' = "done"
  /\ UNCHANGED <<tname, targs, sent, tdown>>
  /\ UNCHANGED <<registry, fanVars, tokVars, loginVars, storeVars, pendVars, cfgVars>>

\* index.ts 406-412, 508-515: what handleAuthLogin settles with: the promise of
\* the one login, or the reply of the loop
LoginHandler(f) ==
  IF multi.finished
  THEN Resolved(Content(<<"Starting authentication for multiple accounts...">>))
  ELSE IF lres[f] \in {"opened", "success"}
  THEN Resolved(Content(<<lres[f], " ", lacct[f]>>))
  ELSE Rejected(ErrorObj(<<lres[f]>>))

\* index.ts 270-325, 401-413: handleAuthLogin has settled
ToolReturnLogin(f) ==
  /\ ~crashed
  /\ tpc = "called"
  /\ tname = "outlook_auth_login"
  /\ \/ multi.finished /\ f = multi.flow
     \/ ~multi.active /\ ~multi.finished /\ lpc[f] # "idle" /\ lres[f] # "pending"
  /\ tres' = Settled(Dispatch(LoginHandler(f)))
  /\ tpc' = "done"
  /\ UNCHANGED <<tname, targs, sent, tdown>>
  /\ UNCHANGED <<registry, fanVars, tokVars, loginVars, storeVars, pendVars, cfgVars>>

AuxIdle == StoreIdle /\ PendIdle /\ CfgIdle /\ ToolIdle

\* ------------------------------------------------------ the specification
\* args.account as a tool call may give it
Targets ==
  {Undefined, Str(<<>>), Str(<<Ghost>>)} \cup {Str(<<AllNames[i]>>) : i \in 1..MaxAccounts}

FanIdle ==
  /\ target = Undefined
  /\ accounts = <<>>
  /\ epc = "idle"
  /\ opCalls = [n \in {AllNames[i] : i \in 1..Len(AllNames)} \cup {Ghost} |-> 0]
  /\ inner = <<>>
  /\ opResult = <<>>
  /\ settleOrder = <<>>
  /\ results = <<>>
  /\ escaped = FALSE
  /\ reply = NoReply

TokIdle ==
  /\ tokenFile = MissingFile
  /\ now = 0
  /\ issued = 0
  /\ gpc = [c \in CallIds |-> "idle"]
  /\ gacct = [c \in CallIds |-> ""]
  /\ gcached = [c \in CallIds |-> NoRecord]
  /\ gres = [c \in CallIds |-> NoResult]
  /\ gnet = [c \in CallIds |-> 0]
  /\ gwrites = [c \in CallIds |-> 0]

Init ==
  /\ registry \in {SubSeq(AllNames, 1, n) : n \in 1..MaxAccounts}
  /\ FanIdle
  /\ TokIdle
  /\ LoginIdle
  /\ AuxIdle

SettleSome == \E i \in 1..Len(accounts) : \E r \in OpSettlements(accounts[i]) : OpSettle(i, r)

Next ==
  \/ \E arg \in Targets : ExecStart(arg)
  \/ SettleSome
  \/ ExecReturn
  \/ Format

Spec == Init /\ [][Next]_vars

\* Every operation eventually settles (the premise of the liveness claim), and the
\* event loop resumes executeForAccounts once Promise.allSettled has resolved.
FairSpec == Spec /\ WF_vars(SettleSome) /\ WF_vars(ExecReturn)

\* the token files the process may find at start-up
InitialRecords(i) ==
  {NoRecord} \cup {Record(CachedTokenOf(i), IsoAt(t), acc) : t \in 1..MaxTime, acc \in BOOLEAN}

InitialFiles ==
  {MissingFile, CorruptFile} \cup
  {FileWith([n \in AllKeys |->
               IF n = AllNames[1] THEN r1 ELSE IF n = AllNames[2] THEN r2 ELSE NoRecord]) :
     r1 \in InitialRecords(1), r2 \in InitialRecords(2)}

TokenInit ==
  /\ registry \in {SubSeq(AllNames, 1, n) : n \in 1..MaxTokenAccounts}
  /\ FanIdle
  /\ tokenFile \in InitialFiles
  /\ now = 0
  /\ issued = 0
  /\ gpc = [c \in CallIds |-> "idle"]
  /\ gacct = [c \in CallIds |-> ""]
  /\ gcached = [c \in CallIds |-> NoRecord]
  /\ gres = [c \in CallIds |-> NoResult]
  /\ gnet = [c \in CallIds |-> 0]
  /\ gwrites = [c \in CallIds |-> 0]
  /\ LoginIdle
  /\ AuxIdle

CallNames == {AllNames[i] : i \in 1..MaxTokenAccounts} \cup {Ghost}

GetAccessTokenCall == \E c \in CallIds : \E a \in CallNames : GetAccessTokenStart(c, a)

SilentResolves == \E c \in CallIds : SilentResolve(c)

SilentRejects == \E c \in CallIds : SilentReject(c)

TokenNext ==
  \/ GetAccessTokenCall
  \/ SilentResolves
  \/ SilentRejects
  \/ Tick

TokenSpec == TokenInit /\ [][TokenNext]_vars

\* args.account of outlook_auth_login
LoginTargets == {Undefined, Str(<<Ghost>>)} \cup {Str(<<AllNames[i]>>) : i \in 1..MaxTokenAccounts}

\* the state parameter of a redirect
CallbackStates == LoginTargets

\* the token files a login may find
LoginFiles ==
  {MissingFile, CorruptFile,
   FileWith([EmptyCache EXCEPT ![AllNames[1]] = Record(CachedTokenOf(1), IsoAt(1), TRUE)])}

LoginInit ==
  /\ registry \in {SubSeq(AllNames, 1, n) : n \in 1..MaxTokenAccounts}
  /\ FanIdle
  /\ tokenFile \in LoginFiles
  /\ now = 0
  /\ issued = 0
  /\ gpc = [c \in CallIds |-> "idle"]
  /\ gacct = [c \in CallIds |-> ""]
  /\ gcached = [c \in CallIds |-> NoRecord]
  /\ gres = [c \in CallIds |-> NoResult]
  /\ gnet = [c \in CallIds |-> 0]
  /\ gwrites = [c \in CallIds |-> 0]
  /\ LoginIdle
  /\ AuxIdle

LoginNext ==
  \/ \E f \in FlowIds : \E arg \in LoginTargets : HandleAuthLoginSingle(f, arg)
  \/ \E f \in FlowIds : \E arg \in LoginTargets : HandleAuthLoginMulti(f, arg)
  \/ \E f \in FlowIds : MultiNext(f)
  \/ MultiReturn
  \/ \E f \in FlowIds : BindCrash(f)
  \/ \E f \in FlowIds : ListenCallback(f)
  \/ \E f \in FlowIds : OpenOk(f)
  \/ \E f \in FlowIds : OpenFail(f)
  \/ \E f \in FlowIds : CallbackNoCode(f)
  \/ \E f \in FlowIds : \E st \in CallbackStates : CallbackWithCode(f, st)
  \/ \E f \in FlowIds : ExchangeOk(f)
  \/ \E f \in FlowIds : ExchangeFail(f)
  \/ \E f \in FlowIds : TimerFire(f)

LoginSpec == LoginInit /\ [][LoginNext]_vars

\* the argument of clearTokenCache
ClearArgs == {Undefined, Str(<<>>), Str(<<Ghost>>)} \cup {Str(<<AllNames[i]>>) : i \in 1..MaxTokenAccounts}

\* the token files a logout or a code exchange may find: none, a corrupt one,
\* and files with A's record absent, expired or unexpired and B's absent or
\* unexpired
StoreFiles ==
  {MissingFile, CorruptFile} \cup
  {FileWith([n \in AllKeys |->
               IF n = AllNames[1] THEN r1 ELSE IF n = AllNames[2] THEN r2 ELSE NoRecord]) :
     r1 \in {NoRecord, Record(CachedTokenOf(1), IsoAt(1), TRUE),
             Record(CachedTokenOf(1), IsoAt(MaxTime), TRUE)},
     r2 \in {NoRecord, Record(CachedTokenOf(2), IsoAt(MaxTime), FALSE)}}

StoreInit ==
  /\ registry \in {SubSeq(AllNames, 1, n) : n \in 1..MaxTokenAccounts}
  /\ FanIdle
  /\ tokenFile \in StoreFiles
  /\ now = 1
  /\ issued = 0
  /\ gpc = [c \in CallIds |-> "idle"]
  /\ gacct = [c \in CallIds |-> ""]
  /\ gcached = [c \in CallIds |-> NoRecord]
  /\ gres = [c \in CallIds |-> NoResult]
  /\ gnet = [c \in CallIds |-> 0]
  /\ gwrites = [c \in CallIds |-> 0]
  /\ LoginIdle
  /\ AuxIdle

StoreNext ==
  \/ \E c \in 1..MaxStoreCalls : \E a \in CallNames : GetAccessTokenStart(c, a)
  \/ SilentResolves
  \/ SilentRejects
  \/ \E arg \in ClearArgs : ClearTokenCache(arg)
  \/ \E a \in CallNames : AcquireTokenByCode(a)

StoreSpec == StoreInit /\ [][StoreNext]_vars

PendInit ==
  /\ registry \in {SubSeq(AllNames, 1, n) : n \in 1..MaxTokenAccounts}
  /\ FanIdle
  /\ TokIdle
  /\ LoginIdle
  /\ AuxIdle

PendNext ==
  \/ \E a \in PendStates : SetPendingAuth(a)
  \/ \E h \in HandlerIds : \E st \in PendStates : HandleAuthCallbackStart(h, st)
  \/ \E h \in HandlerIds : CallbackResolves(h)
  \/ \E h \in HandlerIds : CallbackRejects(h)

PendSpec == PendInit /\ [][PendNext]_vars

\* the environments config.ts may be loaded in
ConfigInit ==
  /\ registry = <<>>
  /\ FanIdle
  /\ TokIdle
  /\ LoginIdle
  /\ StoreIdle
  /\ PendIdle
  /\ ToolIdle
  /\ cpc = "start"
  /\ config = NoConfig
  /\ \/ /\ cfgFile \in {CfgWithout} \cup {CfgWith(l) : l \in AccountLists}
        /\ env = NoEnv
     \/ /\ cfgFile \in {AbsentCfg, CorruptCfg}
        /\ env \in [CLIENT_ID : FieldValues, CLIENT_SECRET : FieldValues]

ConfigNext ==
  \/ LoadConfig
  \/ ValidateConfig

ConfigSpec == ConfigInit /\ [][ConfigNext]_vars

\* the names a tools/call request may carry
ToolNames == Catalog \cup {"no_such_tool"}

ToolInit ==
  /\ registry \in {SubSeq(AllNames, 1, n) : n \in 1..MaxTokenAccounts}
  /\ FanIdle
  /\ tokenFile \in LoginFiles
  /\ now = 0
  /\ issued = 0
  /\ gpc = [c \in CallIds |-> "idle"]
  /\ gacct = [c \in CallIds |-> ""]
  /\ gcached = [c \in CallIds |-> NoRecord]
  /\ gres = [c \in CallIds |-> NoResult]
  /\ gnet = [c \in CallIds |-> 0]
  /\ gwrites = [c \in CallIds |-> 0]
  /\ LoginIdle
  /\ AuxIdle

\* one tools/call request from its arrival to its reply; the login it started
\* is followed until the reply is sent
ToolNext ==
  \/ \E name \in ToolNames : \E account \in LoginTargets : CallTool(name, account)
  \/ tpc = "called" /\ tname \in FanTools /\ ExecStart(FanTarget(tname, targs))
  \/ \E i \in 1..Len(accounts) : \E r \in OpSettlements(accounts[i]) :
       ToolOp(tname, r) /\ OpSettle(i, r)
  \/ ExecReturn
  \/ Format
  \/ ToolReturnFan
  \/ \E r \in UNION {OpSettlements(n) : n \in AllKeys} : DirectSettle(r)
  \/ tpc = "called" /\ tname = "outlook_auth_login" /\ HandleAuthLoginSingle(1, targs)
  \/ tpc = "called" /\ tname = "outlook_auth_login" /\ HandleAuthLoginMulti(1, targs)
  \/ tpc = "called" /\ \E f \in FlowIds : MultiNext(f)
  \/ tpc = "called" /\ MultiReturn
  \/ tpc = "called" /\ \E f \in FlowIds : BindCrash(f)
  \/ tpc = "called" /\ \E f \in FlowIds : ListenCallback(f)
  \/ tpc = "called" /\ \E f \in FlowIds : OpenOk(f)
  \/ tpc = "called" /\ \E f \in FlowIds : OpenFail(f)
  \/ tpc = "called" /\ \E f \in FlowIds : CallbackNoCode(f)
  \/ tpc = "called" /\ \E f \in FlowIds : \E st \in CallbackStates : CallbackWithCode(f, st)
  \/ tpc = "called" /\ \E f \in FlowIds : ExchangeOk(f)
  \/ tpc = "called" /\ \E f \in FlowIds : ExchangeFail(f)
  \/ tpc = "called" /\ \E f \in FlowIds : TimerFire(f)
  \/ \E f \in FlowIds : ToolReturnLogin(f)

ToolSpec == ToolInit /\ [][ToolNext]_vars

\* the requests for the tools that read and write calendars and mail: every
\* tool but outlook_auth_login
DataNext ==
  \/ \E name \in ToolNames \ {"outlook_auth_login"} : \E account \in LoginTargets :
       CallTool(name, account)
  \/ tpc = "called" /\ tname \in FanTools /\ ExecStart(FanTarget(tname, targs))
  \/ \E i \in 1..Len(accounts) : \E r \in OpSettlements(accounts[i]) :
       ToolOp(tname, r) /\ OpSettle(i, r)
  \/ ExecReturn
  \/ Format
  \/ ToolReturnFan
  \/ \E r \in UNION {OpSettlements(n) : n \in AllKeys} : DirectSettle(r)

DataSpec == ToolInit /\ [][DataNext]_vars

\* the process from the loading of config.ts to one fan-out over the registry
\* that the loaded configuration gives
ServeNext ==
  \/ LoadConfig
  \/ ValidateConfig
  \/ cpc = "ready" /\ \E arg \in Targets : ExecStart(arg)
  \/ SettleSome
  \/ ExecReturn
  \/ Format

ServeSpec == ConfigInit /\ [][ServeNext]_vars

\* =================================================================== claims
HasReturned == epc \in {"returned", "formatted"}

\* an outcome whose error field is present and not the empty string
IsErrorOutcome(o) == o.error # Undefined /\ o.error # Str(<<>>)

\* C1 (as claimed): fan-out isolation.  Once executeForAccounts has returned there
\* are exactly N outcomes, the outcome of every account whose operation rejected
\* carries an error, and the outcome of every other account carries the data its
\* operation resolved with.
C1_Isolation ==
  HasReturned =>
    /\ Len(results) = Len(accounts)
    /\ \A i \in 1..Len(accounts) :
         IF opResult[i].ok
         THEN Len(results) >= i /\ results[i].data = opResult[i].val
                                /\ results[i].error = Undefined
         ELSE Len(results) >= i /\ results[i].error # Undefined

\* the outcome at index i is the one of the operation run for accounts[i]
BelongsTo(o, i) ==
  IF opResult[i].ok
  THEN o.account = accounts[i] /\ o.data = opResult[i].val
  ELSE /\ o.data = Null
       /\ o.account \in {accounts[i], "unknown"}
       /\ (opResult[i].val.k = "Error" => o.account = accounts[i] /\ o.error = Str(opResult[i].val.v))

\* C2: whatever the order in which the operations complete, the i-th outcome
\* returned by executeForAccounts is the outcome of the operation that was run
\* for the i-th account of the resolved account sequence, which is the registry
\* order when no target is given.
C2_OrderPreserved ==
  HasReturned =>
    /\ Len(results) = Len(accounts)
    /\ (Falsy(target) => accounts = registry)
    /\ \A i \in 1..Len(accounts) : Len(results) >= i /\ BelongsTo(results[i], i)

\* C2 witness: three operations completed in the reverse of the account order,
\* one of them with data and one with an error, and the executor has returned.
C2_Witness ==
  /\ epc = "returned"
  /\ Len(accounts) >= 3
  /\ settleOrder[1] > settleOrder[2] /\ settleOrder[2] > settleOrder[3]
  /\ opResult[1].ok /\ ~opResult[2].ok /\ opResult[2].val.k = "Error"

UnknownTarget == Truthy(target) /\ ~Configured(target.v[1])

\* C3 (as claimed): a fan-out whose target account is not in the registry
\* fails, and the per-account operation is invoked zero times for that name.
C3_UnknownTargetNotInvoked ==
  (epc # "idle" /\ UnknownTarget) =>
    /\ opCalls[target.v[1]] = 0
    /\ (HasReturned => escaped)

\* C4: executeForAccounts returns only after every launched operation has
\* settled, with one outcome per operation whatever each one threw, it never
\* rejects, and once launched it eventually returns provided every operation
\* eventually settles.
C4_SettleAll ==
  /\ [](HasReturned =>
          /\ \A i \in 1..Len(accounts) : opResult[i].done
          /\ ~escaped
          /\ Len(results) = Len(accounts))
  /\ ((epc = "awaiting") ~> HasReturned)

\* C4 witness: the executor has returned after one operation threw null, one
\* threw a value without a message and one threw an Error.
C4_Witness ==
  /\ epc = "returned"
  /\ \E i, j, l \in 1..Len(accounts) :
       /\ ~opResult[i].ok /\ opResult[i].val = Null
       /\ ~opResult[j].ok /\ opResult[j].val.k = "plain"
       /\ ~opResult[l].ok /\ opResult[l].val.k = "Error"

SuccessShape(o) == o.error = Undefined /\ o.data # Null

FailureShape(o) == o.error.k = "string" /\ o.error.v # <<>> /\ o.data = Null

\* C5 (as claimed): every outcome returned by executeForAccounts is a success
\* (data, no error) or a failure (non-empty error string, null data), and an
\* operation that rejected is represented by a failure.
C5_OutcomeShape ==
  HasReturned =>
    \A i \in 1..Len(results) :
      /\ SuccessShape(results[i]) \/ FailureShape(results[i])
      /\ (i <= Len(opResult) /\ ~opResult[i].ok => FailureShape(results[i]))

\* the blocks of a reply text: the label after each "[" and the token that
\* follows the closing "]"
ParsedBlocks(text) ==
  LET idx == SelectSeq([i \in 1..Len(text) |-> i], LAMBDA i : text[i] = "[")
  IN [j \in 1..Len(idx) |-> [account |-> text[idx[j] + 1], sep |-> text[idx[j] + 3]]]

ExpectedBlocks(rs) ==
  LET succ == SelectSeq(rs, LAMBDA o : ~IsErrorOutcome(o))
      errs == SelectSeq(rs, LAMBDA o : IsErrorOutcome(o))
  IN [j \in 1..Len(succ) |-> [account |-> succ[j].account, sep |-> "\n"]]
     \o [j \in 1..Len(errs) |-> [account |-> errs[j].account, sep |-> " Error: "]]

\* C6: for two or more outcomes formatMultiAccountResponse does not throw and
\* returns one text whose blocks are, in account order, one "[account]" block
\* per outcome without an error followed by one "[account] Error:" block per
\* outcome with an error: every outcome has exactly one block and no success
\* block comes after an error block.
C6_MultiShape ==
  (epc = "formatted" /\ Len(results) >= 2) =>
    /\ reply.kind = "return"
    /\ reply.value = Content(reply.text)
    /\ ParsedBlocks(reply.text) = ExpectedBlocks(results)
    /\ Len(ParsedBlocks(reply.text)) = Len(results)

\* C6 witness: a formatted reply for three outcomes, all of them errors, and
\* (in another state) one for two successes and one error
C6_Witness ==
  /\ epc = "formatted"
  /\ Len(results) = 3
  /\ ~IsErrorOutcome(results[1]) /\ IsErrorOutcome(results[2]) /\ ~IsErrorOutcome(results[3])
  /\ reply.kind = "return"

Contains(text, part) ==
  \E j \in 1..(Len(text) - Len(part) + 1) : SubSeq(text, j, j + Len(part) - 1) = part

\* C7: for exactly one outcome formatMultiAccountResponse returns the data
\* itself when the outcome has no error, and throws a message that contains
\* the outcome's account name and its failure reason when it has one; for any
\* other number of outcomes it does not throw.
C7_SingleShape ==
  epc = "formatted" =>
    IF Len(results) = 1
    THEN IF IsErrorOutcome(results[1])
         THEN /\ reply.kind = "throw"
              /\ Contains(reply.text, <<results[1].account>>)
              /\ Contains(reply.text, ToStr(results[1].error))
         ELSE reply = Returned(results[1].data)
    ELSE reply.kind = "return"

\* C7 witness: a single targeted account whose operation rejected with an
\* Error, formatted into a thrown message
C7_Witness ==
  /\ epc = "formatted"
  /\ Len(results) = 1
  /\ Truthy(target)
  /\ ~opResult[1].ok /\ opResult[1].val.k = "Error" /\ opResult[1].val.v # <<>>
  /\ reply.kind = "throw"

\* ------------------------------------------------- claims on getAccessToken
\* call c takes its first step, getAccessToken(a), in this step
Starts(c, a) == gpc[c] = "idle" /\ gpc'[c] # "idle" /\ gacct'[c] = a

\* the Token Store holds a record for a
Holds(a) == tokenFile.st = "ok" /\ tokenFile.cache[a].present

\* C8: token reuse.  Whenever the token file holds a record for a configured
\* account whose expiresOn is later than now, a getAccessToken call for that
\* account returns at once with exactly that record's access token, makes no
\* call to the identity provider and leaves the token file as it was.
C8_TokenReuse ==
  [][\A c \in CallIds : \A a \in AllKeys :
       (Starts(c, a) /\ Configured(a) /\ Holds(a) /\ tokenFile.cache[a].expiresOn.t > now)
         => /\ gpc'[c] = "done"
            /\ gres'[c] = [kind |-> "token", token |-> tokenFile.cache[a].accessToken]
            /\ gnet'[c] = 0
            /\ gwrites'[c] = 0
            /\ tokenFile' = tokenFile]_vars

\* C8 witness: a call that returned the token found in the file at start-up
\* without any provider call, while that record also carries a refresh handle
C8_Witness ==
  \E c \in CallIds :
    /\ gpc[c] = "done" /\ gres[c].kind = "token" /\ gres[c].token.src = "cached"
    /\ gnet[c] = 0
    /\ Holds(gacct[c]) /\ tokenFile.cache[gacct[c]].account
    /\ now > 0

\* C9: refresh on expiry.  A getAccessToken call that finds an expired record
\* with a refresh handle makes exactly one silent-refresh call; when that call
\* succeeds, at the moment getAccessToken returns the new token the token file
\* holds it under the call's account, unexpired, so that a following
\* getAccessToken takes the token-reuse path.
C9_RefreshOnExpiry ==
  /\ [](\A c \in CallIds : gnet[c] <= 1 /\ (gpc[c] = "silent" => gnet[c] = 1))
  /\ [][\A c \in CallIds :
         /\ \A a \in AllKeys :
              (Starts(c, a) /\ Configured(a) /\ Holds(a)
                 /\ tokenFile.cache[a].expiresOn.t <= now /\ tokenFile.cache[a].account)
                => gpc'[c] = "silent" /\ gnet'[c] = 1
         /\ (gpc[c] = "silent" /\ gpc'[c] = "done" /\ issued' # issued)
              => /\ gres'[c].kind = "token"
                 /\ gres'[c].token = [src |-> "issued", n |-> issued']
                 /\ gnet'[c] = 1
                 /\ tokenFile'.st = "ok"
                 /\ tokenFile'.cache[gacct[c]].present
                 /\ tokenFile'.cache[gacct[c]].accessToken = gres'[c].token
                 /\ tokenFile'.cache[gacct[c]].expiresOn.t > now']_vars

\* C9 witness: one call refreshed the expired record of an account and a second
\* call for the same account returned the new token without a provider call
C9_Witness ==
  \E c, d \in CallIds :
    /\ c # d /\ gacct[c] = gacct[d]
    /\ gpc[c] = "done" /\ gres[c].kind = "token" /\ gres[c].token.src = "issued" /\ gnet[c] = 1
    /\ gcached[c].present /\ gcached[c].account
    /\ gpc[d] = "done" /\ gres[d] = gres[c] /\ gnet[d] = 0

\* C10: for a configured account getAccessToken never throws.  It returns
\* absent, without a provider call, when there is no cached record and when
\* the expired record has no refresh handle, and it returns absent when the
\* provider rejects the silent refresh; in all three cases the call leaves the
\* token file as it was.
C10_AbsentNeverThrows ==
  /\ [](\A c \in CallIds : Configured(gacct[c]) => gres[c].kind # "throw")
  /\ [][\A c \in CallIds :
         /\ \A a \in AllKeys :
              (Starts(c, a) /\ Configured(a)
                 /\ \/ ~Holds(a)
                    \/ Holds(a) /\ tokenFile.cache[a].expiresOn.t <= now
                                /\ ~tokenFile.cache[a].account)
                => /\ gpc'[c] = "done"
                   /\ gres'[c] = [kind |-> "null", token |-> NoToken]
                   /\ gnet'[c] = 0
                   /\ gwrites'[c] = 0
                   /\ tokenFile' = tokenFile
         /\ (gpc[c] = "silent" /\ gpc'[c] = "done" /\ issued' = issued)
              => /\ gres'[c] = [kind |-> "null", token |-> NoToken]
                 /\ gwrites'[c] = 0
                 /\ tokenFile' = tokenFile]_vars

\* C10 witness: one call returned absent after the provider rejected its
\* refresh, another returned absent for an account with no usable record
C10_Witness ==
  \E c, d \in CallIds :
    /\ c # d
    /\ gpc[c] = "done" /\ gres[c].kind = "null" /\ gnet[c] = 1 /\ Configured(gacct[c])
    /\ gpc[d] = "done" /\ gres[d].kind = "null" /\ gnet[d] = 0 /\ Configured(gacct[d])


\* ---------------------------------------------------- the interactive login

\* C11: the result of an interactive login stays pending from the moment the
\* listener is bound and the browser opened until the callback completes the
\* token exchange (success), a callback arrives without code (missing
\* authorization code) or the timer fires (timeout); a failed exchange is let
\* through as well.  A flow whose browser has been opened is therefore pending
\* or settled by one of these events.
C11_PendingUntilEvent ==
  \A f \in FlowIds :
    lpc[f] = "opened" =>
      \/ lres[f] = "pending"
      \/ lres[f] = "success" /\ authCodeReceived[f]
      \/ lres[f] = "missingCode" /\ lastCb[f] # "none"
      \/ lres[f] = "timeout" /\ timer[f] = "fired"
      \/ lres[f] = "error" /\ lastCb[f] # "none"

\* C12: login timeout.  A login whose browser was opened, whose timer has fired
\* and that got no callback has settled with the timeout failure, and its
\* listener no longer holds the port.
C12_TimeoutSettlesAndReleases ==
  \A f \in FlowIds :
    (lpc[f] = "opened" /\ timer[f] = "fired" /\ lastCb[f] = "none") =>
      (lres[f] = "timeout" /\ srv[f] # "listening")

\* C13: at most one interactive login holds the callback port, and overlapping
\* logins are serialized or rejected: no login ever calls listen on the port
\* while the listener of an earlier login is still bound.
C13_OneLoginHoldsPort ==
  /\ Cardinality({f \in FlowIds : srv[f] = "listening"}) <= 1
  /\ \A f \in FlowIds : srv[f] # "failed"


\* C14: when a callback with a code is handled and the provider accepts the
\* exchange, the Token Store afterwards holds the new record under the account
\* named by the callback's state, and the listener of the login is closed, so
\* that the port is free.
C14_CallbackStoresAndCloses ==
  [][\A f \in FlowIds :
       (cbx[f].st = "exchanging" /\ cbx'[f].st = "none" /\ issued' = issued + 1) =>
         /\ loadTokenFromCache(tokenFile', cbx[f].name) = JsonOf(CodeResponse)
         /\ srv'[f] # "listening"
         /\ ~PortHeld']_vars

\* C15: a callback without code makes the login that waits for its callback
\* fail with the missing-authorization-code failure, starts no token exchange
\* and leaves the Token Store as it was.
C15_NoCodeFailsLogin ==
  [][\A f \in FlowIds :
       (lastCb'[f] = "noCode" /\ lastCb[f] # "noCode" /\ lres[f] \in {"pending", "opened"}) =>
         /\ lres'[f] = "missingCode"
         /\ cbx' = cbx
         /\ issued' = issued
         /\ tokenFile' = tokenFile]_vars

\* the flow has been completed by success, missing-code failure or timeout
Completed(f) == lres[f] \in {"success", "missingCode", "timeout"}

\* a callback or the timer acts on flow f
CompletionAttempt(f) ==
  \/ lastCb'[f] # lastCb[f]
  \/ cbx'[f] # cbx[f]
  \/ timer'[f] # timer[f]

\* C19: each login flow is completed exactly once.  Once a flow is completed, a
\* later callback or timer of the same flow changes neither the flow's result,
\* nor the Token Store, nor any listener.
C19_CompletedOnce ==
  [][\A f \in FlowIds :
       (Completed(f) /\ CompletionAttempt(f)) =>
         /\ lres'[f] = lres[f]
         /\ tokenFile' = tokenFile
         /\ srv' = srv]_vars


\* ------------------------------------------------------- the token store

\* the file holds a record for a
HoldsIn(file, a) == file.st = "ok" /\ file.cache[a].present

\* the argument names an account
NamedAccount(arg) == arg.k = "string" /\ arg.v # <<>>

\* the step is a call of kind k
Calls(k) == sop'.seq # sop.seq /\ sop'.kind = k

\* C16: idempotent logout.  clearTokenCache never raises; for a named account
\* without record (also when there is no file) it leaves the store as it was;
\* clearing again what was just cleared changes nothing; after a clear of all
\* accounts the store holds no record; a getAccessToken call for a configured
\* account without record returns null and stores nothing; and a record only
\* comes into the store with a newly issued token.
C16_IdempotentLogout ==
  /\ [][Calls("clear") =>
          /\ ~sop'.threw
          /\ (NamedAccount(sop'.arg) /\ ~HoldsIn(tokenFile, sop'.arg.v[1])) =>
               tokenFile' = tokenFile
          /\ clearTokenCache(tokenFile', sop'.arg) = [file |-> tokenFile', threw |-> FALSE]
          /\ sop'.arg = Undefined => \A a \in AllKeys : ~HoldsIn(tokenFile', a)]_vars
  /\ [][\A c \in CallIds : \A i \in 1..Len(registry) :
          (Starts(c, registry[i]) /\ ~HoldsIn(tokenFile, registry[i])) =>
            (gpc'[c] = "done" /\ gres'[c] = ReturnNull /\ tokenFile' = tokenFile)]_vars
  /\ [][\A a \in AllKeys :
          (~HoldsIn(tokenFile, a) /\ HoldsIn(tokenFile', a)) => issued' = issued + 1]_vars

\* a token was issued and stored, everything was cleared, and a getAccessToken
\* call for a configured account has returned null
C16_Witness ==
  /\ sop.kind = "clear" /\ sop.arg = Undefined
  /\ issued > 0
  /\ tokenFile = MissingFile
  /\ \E c \in CallIds : gpc[c] = "done" /\ Configured(gacct[c]) /\ gres[c] = ReturnNull

\* C17: a corrupt or unreadable token file behaves like an empty one: get
\* returns absent for every account, delete raises no error, and a put for a
\* configured account succeeds, so that a following get returns the record.
C17_CorruptLikeEmpty ==
  /\ [][\A c \in CallIds : \A i \in 1..Len(registry) :
          (Starts(c, registry[i]) /\ tokenFile.st = "corrupt") =>
            (gpc'[c] = "done" /\ gres'[c] = ReturnNull)]_vars
  /\ [][(Calls("clear") /\ tokenFile.st = "corrupt") => ~sop'.threw]_vars
  /\ [][(Calls("put") /\ tokenFile.st = "corrupt" /\ HasClient(sop'.arg.v[1])) =>
          /\ ~sop'.threw
          /\ loadTokenFromCache(tokenFile', sop'.arg.v[1]) = JsonOf(CodeResponse)]_vars


\* ----------------------------------------------------- the pending-auth map

\* handleAuthCallback call h starts with state a
StartsCallback(h, a) == hpc[h] = "idle" /\ hpc'[h] # "idle" /\ hstate'[h] = a

\* the continuation registered last for a has been invoked and no call is
\* still waiting for it
HasRun(a) ==
  /\ invoked[a] > 0
  /\ \A h \in HandlerIds : ~(hpc[h] = "awaiting" /\ hstate[h] = a)

\* C18: the entry registered for a state is consumed exactly once.  When a
\* handleAuthCallback call for a registered state ends, with the continuation
\* resolved or rejected, no entry for the state remains; a callback that
\* comes after the continuation has run does not invoke it again; and a
\* callback for a state without entry returns having invoked and changed
\* nothing.
C18_ConsumedOnce ==
  /\ [][\A h \in HandlerIds :
          (hpc[h] = "awaiting" /\ hpc'[h] = "done") => ~pendingAuth'[hstate[h]]]_vars
  /\ [][\A h \in HandlerIds : \A a \in PendStates :
          (StartsCallback(h, a) /\ HasRun(a)) => invoked' = invoked]_vars
  /\ [][\A h \in HandlerIds : \A a \in PendStates :
          (StartsCallback(h, a) /\ ~pendingAuth[a]) =>
            /\ hpc'[h] = "done" /\ hres'[h] = "returned"
            /\ invoked' = invoked
            /\ pendingAuth' = pendingAuth]_vars

\* ----------------------------------------------------------- configuration

\* the field is missing or empty
Lacks(v) == v = Undefined \/ v = Null \/ v = Str(<<>>)

\* the account list the environment gives: that of config.json or, without
\* config.json, the one account made of the environment variables
GivenAccounts ==
  CASE cfgFile.st = "ok" -> cfgFile.accounts
    [] cfgFile.st = "absent" ->
         <<[name |-> Str(<<"Default">>), clientId |-> env.CLIENT_ID,
            clientSecret |-> env.CLIENT_SECRET]>>
    [] OTHER -> <<>>

\* the account list is missing or empty, or an account lacks a name, a client
\* id or a client secret
BadInput ==
  \/ Len(GivenAccounts) = 0
  \/ \E i \in 1..Len(GivenAccounts) :
       \/ Lacks(GivenAccounts[i].name)
       \/ Lacks(GivenAccounts[i].clientId)
       \/ Lacks(GivenAccounts[i].clientSecret)

\* C20: once config.ts has run, loading has failed and produced no registry
\* whenever the account list is missing or empty or an account lacks a name, a
\* client id or a client secret; and a registry that was produced has at least
\* one account and only accounts with non-empty name, clientId and clientSecret.
C20_ConfigValidated ==
  /\ (cpc \in {"failed", "ready"} /\ BadInput) => cpc = "failed"
  /\ cpc = "failed" => registry = <<>>
  /\ cpc = "ready" =>
       /\ Len(registry) >= 1
       /\ Len(registry) = Len(config.accounts)
       /\ \A i \in 1..Len(config.accounts) :
            /\ ~Lacks(config.accounts[i].name)
            /\ ~Lacks(config.accounts[i].clientId)
            /\ ~Lacks(config.accounts[i].clientSecret)
            /\ registry[i] = config.accounts[i].name.v[1]

\* loading has failed on a config.json whose first account is complete and
\* whose second account lacks only the client secret
C20_Witness ==
  /\ cpc = "failed"
  /\ cfgFile.st = "ok" /\ cfgFile.hasAccounts /\ Len(cfgFile.accounts) = 2
  /\ ~Lacks(cfgFile.accounts[1].name)
  /\ ~Lacks(cfgFile.accounts[1].clientId)
  /\ ~Lacks(cfgFile.accounts[1].clientSecret)
  /\ ~Lacks(cfgFile.accounts[2].name)
  /\ ~Lacks(cfgFile.accounts[2].clientId)
  /\ Lacks(cfgFile.accounts[2].clientSecret)

\* C21: in every registry that loading has accepted the account names are
\* pairwise distinct.
C21_NamesDistinct ==
  cpc = "ready" =>
    \A i, j \in 1..Len(registry) : i # j => registry[i] # registry[j]

\* ------------------------------------------------------------ the process
\* C24: no sequence of login invocations, callbacks, exchanges and timers
\* terminates the process.
C24_ProcessSurvives == ~crashed

\* C28: the timer of one login never closes the listener of another login: a
\* step in which the timer of flow f fires leaves every other flow's listening
\* server listening.
C28_TimerClosesOwnListener ==
  [][\A f \in FlowIds : \A g \in FlowIds \ {f} :
       (timer[f] = "armed" /\ timer'[f] = "fired" /\ srv[g] = "listening")
         => srv'[g] = "listening"]_vars

\* C30: every outcome of executeForAccounts carries the name of the account it
\* was requested for, whatever the operation threw; none is labelled 'unknown'.
C30_OutcomeLabelled ==
  (epc \in {"returned", "formatted"} /\ ~escaped) =>
    /\ Len(results) = Len(accounts)
    /\ \A i \in 1..Len(results) : results[i].account = accounts[i]

\* -------------------------------------------------- frame of the token store
\* the step stores a token for account a (a code exchange or a refresh) or
\* clears the token of account a
StoresOrClears(a) ==
  \/ sop' # sop /\ sop'.kind \in {"put", "clear"} /\ sop'.arg = Str(<<a>>)
  \/ \E c \in CallIds : gpc[c] = "silent" /\ gpc'[c] = "done" /\ gacct[c] = a
                         /\ issued' # issued

\* what getAccessToken(b) finds on the file: it throws, returns the cached
\* token, goes to the provider for a refresh, or returns null
GetAccessTokenOn(file, b, t) ==
  LET cachedToken == loadTokenFromCache(file, b) IN
  IF ~HasClient(b) THEN <<"throw", NoToken>>
  ELSE IF Unexpired(cachedToken, t) THEN <<"token", cachedToken.accessToken>>
  ELSE IF CanRefresh(cachedToken) THEN <<"refresh", NoToken>>
  ELSE <<"null", NoToken>>

\* C26: a step that stores a token for account a, by login or by refresh, or
\* that clears a's token leaves the record of every other account b as it was,
\* and getAccessToken(b) finds the same before and after.
C26_OtherAccountsUntouched ==
  [][tokenFile' # tokenFile =>
       \A a \in AllKeys :
         StoresOrClears(a) =>
           \A b \in AllKeys \ {a} :
             /\ loadTokenFromCache(tokenFile', b) = loadTokenFromCache(tokenFile, b)
             /\ GetAccessTokenOn(tokenFile', b, now') = GetAccessTokenOn(tokenFile, b, now)]_vars

\* a code exchange for A has written A's record into a file that holds a
\* record of B
C26_Witness ==
  /\ sop.kind = "put" /\ sop.arg = Str(<<AllNames[1]>>) /\ ~sop.threw
  /\ tokenFile.st = "ok"
  /\ tokenFile.cache[AllNames[1]].accessToken.src = "issued"
  /\ tokenFile.cache[AllNames[2]].present

\* ----------------------------------------------------- concurrent refreshes
\* call c has completed a silent refresh
Refreshed(c) == gpc[c] = "done" /\ gres[c].kind = "token" /\ gres[c].token.src = "issued"

\* C29: whatever the interleaving of the getAccessToken calls of a fan-out,
\* once a call has completed its refresh the token file holds, under the
\* call's account, the token that call obtained or the one a later refresh
\* for the same account obtained; the save of one call never removes or
\* replaces the record another call saved for a different account.
C29_ConcurrentRefreshesKept ==
  \A c \in CallIds :
    Refreshed(c) =>
      /\ tokenFile.st = "ok"
      /\ tokenFile.cache[gacct[c]].present
      /\ \E e \in CallIds :
           /\ Refreshed(e) /\ gacct[e] = gacct[c]
           /\ gres[e].token.n >= gres[c].token.n
           /\ tokenFile.cache[gacct[c]].accessToken = gres[e].token

\* two calls for different accounts have each made one provider call and
\* completed their refresh, and the file holds both refreshed tokens
C29_Witness ==
  \E c, d \in CallIds :
    /\ c # d /\ gacct[c] # gacct[d]
    /\ Refreshed(c) /\ Refreshed(d)
    /\ gnet[c] = 1 /\ gnet[d] = 1
    /\ gres[c].token.n = 2 /\ gres[d].token.n = 1
    /\ tokenFile.cache[gacct[c]].accessToken = gres[c].token
    /\ tokenFile.cache[gacct[d]].accessToken = gres[d].token

\* ------------------------------------------------------ the login tool call
\* the login of flow f failed at its start, or failed to complete: its
\* redirect came without a code, or its timer fired without a token received
LoginFailed(f) ==
  \/ lpc[f] = "startFailed"
  \/ lastCb[f] = "noCode"
  \/ timer[f] = "fired" /\ ~authCodeReceived[f]

\* C25: a login call for exactly one account fails, with that account's error,
\* when starting or completing the login fails; a login call for two or more
\* accounts returns a reply with exactly one line per account, in registry
\* order, each marked as success or failure.
C25_LoginReply ==
  /\ (~multi.active /\ ~multi.finished) =>
       \A f \in FlowIds : LoginFailed(f) => lres[f] \in {"error", "missingCode", "timeout"}
  /\ multi.finished =>
       /\ Len(multi.lines) = Len(registry)
       /\ \A i \in 1..Len(registry) : multi.lines[i].account = registry[i]

\* --------------------------------------------------------- the tool calls
\* C22: every tool invocation ends as a reply of the shape
\* { content: [{ type: 'text', text }] } or as one of the structured failures
\* MethodNotFound, InvalidRequest and InternalError, MethodNotFound exactly
\* when the tool name is not in the catalog; no other value is returned.
C22_ReplyOrStructuredFailure ==
  tpc = "done" =>
    /\ tres.done
    /\ IF tres.ok THEN tres.val.k = "content" ELSE tres.val.k \in ErrorCodes
    /\ (~tres.ok /\ tres.val.k = "MethodNotFound") <=> tname \notin Catalog

\* the call names one account, or the registry has one account
SingleAccountCall == Truthy(targs) \/ Len(registry) = 1

\* the downstream service answered the call of the one account with 401
Downstream401 ==
  \/ tname \in DirectTools /\ tdown.done /\ ~tdown.ok /\ StatusCode401(tdown.val)
  \/ tname \in FanTools /\ Len(opResult) = 1 /\ opResult[1].done /\ ~opResult[1].ok
       /\ StatusCode401(opResult[1].val)

\* C23: a single-account tool call that failed because the downstream service
\* answered 401 ends as InvalidRequest 'Authentication required', whether the
\* tool runs through the fan-out or calls the Graph client directly; it never
\* ends as InternalError.
C23_UnauthenticatedIsInvalidRequest ==
  (tpc = "done" /\ SingleAccountCall /\ Downstream401) =>
    /\ ~tres.ok
    /\ tres.val.k = "InvalidRequest"

NoCodeStep(f) == srv[f] = "listening" /\ lastCb[f] # "noCode" /\ lastCb'[f] = "noCode"

\* the provider rejects the code of the callback of flow f
ExchangeRejectedStep(f) ==
  cbx[f].st = "exchanging" /\ cbx'[f].st = "none" /\ issued' = issued

\* the server of flow f receives a callback whose state names an account
\* without client, so that no exchange is started
UnknownStateStep(f) ==
  /\ srv[f] = "listening" /\ cbx[f].st = "none"
  /\ lastCb[f] # "withCode" /\ lastCb'[f] = "withCode"
  /\ cbx'[f].st = "none"

\* C31: a login releases its listener on every path that ends the flow: after
\* a callback without a code, after an exchange the provider rejected and
\* after a callback whose state names an unknown account the server of the
\* flow no longer listens and the port is free.
C31_ListenerReleased ==
  [][\A f \in FlowIds :
       (NoCodeStep(f) \/ ExchangeRejectedStep(f) \/ UnknownStateStep(f))
         => (srv'[f] # "listening" /\ ~PortHeld')]_vars

\* C32: a token obtained through the login started for account A is stored
\* only under A: a completed exchange on the listener of flow f leaves the
\* record of every account other than lacct[f] as it was.
C32_StoredUnderOwnAccount ==
  [][\A f \in FlowIds :
       (cbx[f].st = "exchanging" /\ cbx'[f].st = "none" /\ issued' # issued)
         => \A b \in AllKeys \ {lacct[f]} :
              loadTokenFromCache(tokenFile', b) = loadTokenFromCache(tokenFile, b)]_vars

\* --------------------------------------------------- login and get round trip
\* the last logout or code exchange was a successful exchange for a, and no
\* refresh has stored a token since
JustLoggedIn(a) ==
  /\ sop.kind = "put" /\ sop.arg = Str(<<a>>) /\ ~sop.threw
  /\ \A d \in CallIds : gwrites[d] = 0 /\ gpc[d] # "silent"

\* C34: after a successful code exchange for account a that yielded the
\* unexpired token T, and with no logout or later store in between, a
\* getAccessToken call for a returns at once exactly T and makes no call to
\* the identity provider, whatever the token file was before the login.
C34_LoginGetRoundTrip ==
  [][\A c \in CallIds : \A a \in AllKeys :
       (Starts(c, a) /\ JustLoggedIn(a))
         => /\ gpc'[c] = "done"
            /\ gres'[c] = ReturnToken(IssuedToken(issued))
            /\ gnet'[c] = 0]_vars

\* ------------------------------------------------- invocations of the fan-out
\* the names of the resolved account set
ResolvedSet == IF Truthy(target) THEN {target.v[1]} ELSE {registry[i] : i \in 1..Len(registry)}

\* C33: once executeForAccounts has started, the operation has been invoked
\* exactly once for each account of the resolved set (the target account when
\* one is given, else every registry account) and never for any other account.
C33_InvokedOncePerAccount ==
  epc # "idle" =>
    \A n \in DOMAIN opCalls : opCalls[n] = IF n \in ResolvedSet THEN 1 ELSE 0

====
